---- MODULE Spec2Model ----
(***************************************************************************)
(* The N-1 contingency harness of Chapter 8, Case Study 2                  *)
(* (src/Chapter 8/Chapter_8_CS_2.py): a base optimal power flow, one       *)
(* re-optimisation per outaged line, the conservative (element-wise        *)
(* maximum) dispatch and the summary statistics.                           *)
(*                                                                         *)
(* The optimiser and the network library are external.  A solve is a       *)
(* nondeterministic choice among the outcomes the library can hand back:   *)
(* "ok" with a dispatch table and its objective, a returned status that is *)
(* not ok ("infeasible", or "other" for any other solver failure) that     *)
(* leaves the network object as it was, or a raised exception.  Whether    *)
(* the netCDF round trip carries the objective attribute of the exported   *)
(* network is a property of the library build; both builds are explored    *)
(* (variable persists).                                                    *)
(*                                                                         *)
(* Python objects are references: networks live in a heap (nets) and the   *)
(* script variables n and m hold references into it.  A pandas DataFrame   *)
(* is a function from its index (snapshots) to a row, a row is a function  *)
(* from column names to values.  An optional value is a sequence of        *)
(* length 0 (None) or 1.                                                   *)
(***************************************************************************)
EXTENDS Integers, Sequences, FiniteSets, TLC

VARIABLES
    pc,                 \* position of the script
    exc,                \* the uncaught exception that ended the run, or None
    persists,           \* library build: the file keeps the objective attribute
    solver,             \* the optimiser installed: any, one with fixed answers, or an exact LP solver
    snapshots,          \* n.snapshots (line 50)
    nets,               \* heap of network objects
    n,                  \* reference of the base network
    m,                  \* reference of the scenario network, or None
    file,               \* content of base_network.nc, or None
    found,              \* base_network.nc as the run found it when it started
    ofp_dispatch,       \* line 84
    ofp_cost,           \* line 85
    contingency_lines,  \* line 91
    idx,                \* position of the for loop in contingency_lines
    scopf_dispatches,   \* line 92
    scopf_costs,        \* line 93
    scopf_unserved,     \* line 94
    scopf_dispatch,     \* line 115
    bars,               \* the bars drawn by plt.bar (line 139)
    stdout,             \* the lines printed
    solves,             \* what the optimiser handed back, one entry per call
    globals             \* the variables of the other scripts (Chapter 6, Chapter 8 Case Study 1)

vars == <<pc, exc, globals, persists, solver, found, snapshots, nets, n, m, file, ofp_dispatch, ofp_cost,
          contingency_lines, idx, scopf_dispatches, scopf_costs, scopf_unserved,
          scopf_dispatch, bars, stdout, solves>>

-----------------------------------------------------------------------------
(* Bounds and program constants *)

\* dispatch levels the optimiser may return for a running generator: 1..MaxP
MaxP == 1

\* number of snapshots of the alternative input of SpecInputs
AltPeriods == 2

\* pd.date_range(..., periods=1)
Periods == 1

\* number of hourly snapshots of the microgrid study (120 in the script)
MgHours == 2

\* pd.date_range("2025-01-01", periods=168, freq="H")
StressHours == 168

\* number of snapshots of the networks whose emissions are computed
EmHours == 2

\* number of calls of run_pypsa_model in a session
MaxCalls == 2

\* range(5): number of buses
NumBuses == 5

None == <<>>

Some(v) == <<v>>

Val(o) == o[1]

-----------------------------------------------------------------------------
(* Small arithmetic *)

Max(S) == CHOOSE x \in S : \A y \in S : y <= x

RECURSIVE SumSet(_, _)
\* sum of f[x] over the finite set S
SumSet(f, S) ==
    IF S = {} THEN 0
    ELSE LET x == CHOOSE y \in S : TRUE
         IN f[x] + SumSet(f, S \ {x})

RECURSIVE SumSeq(_)
SumSeq(s) == IF s = <<>> THEN 0 ELSE Head(s) + SumSeq(Tail(s))

\* the elements of a sequence
Range(s) == {s[i] : i \in DOMAIN s}

\* str.__contains__ : pandas filter(like=sub) keeps the labels with sub in label
Contains(name, sub) ==
    \E i \in 1..(Len(name) - Len(sub) + 1) : SubSeq(name, i, i + Len(sub) - 1) = sub

-----------------------------------------------------------------------------
(* 1. The base network, lines 49-78 *)

BusName(i) == "Bus " \o ToString(i)

Buses == {BusName(i) : i \in 0..(NumBuses - 1)}

Line(b0, b1) == [bus0 |-> BusName(b0), bus1 |-> BusName(b1), s_nom |-> 100]

BaseLines ==
    [l \in {"Line_0_1", "Line_1_2", "Line_2_3", "Line_3_0", "Line_1_4"} |->
        CASE l = "Line_0_1" -> Line(0, 1)
          [] l = "Line_1_2" -> Line(1, 2)
          [] l = "Line_2_3" -> Line(2, 3)
          [] l = "Line_3_0" -> Line(3, 0)
          [] l = "Line_1_4" -> Line(1, 4)]

Gen(bus, p_nom, mc, carrier) ==
    [bus |-> bus, p_nom |-> p_nom, marginal_cost |-> mc, carrier |-> carrier]

UnservedGen(bus) == Gen(bus, 10000, 10000, "unserved")

BaseGenerators ==
    [g \in {"G0", "G1", "G2", "G3"} |->
        CASE g = "G0" -> Gen(BusName(0), 100, 0, "wind")
          [] g = "G1" -> Gen(BusName(1), 80, 50, "gas")
          [] g = "G2" -> Gen(BusName(2), 40, 40, "chp")
          [] g = "G3" -> Gen(BusName(3), 100, 200, "diesel")]
    @@
    [g \in {"Unserved_" \o ToString(i) : i \in 0..(NumBuses - 1)} |->
        UnservedGen(BusName(CHOOSE i \in 0..(NumBuses - 1) : g = "Unserved_" \o ToString(i)))]

\* lines 63-66
BaseLoads ==
    [l \in {"Load1", "Load2", "Load3", "Load4"} |->
        CASE l = "Load1" -> [bus |-> BusName(1), p_set |-> 50]
          [] l = "Load2" -> [bus |-> BusName(2), p_set |-> 30]
          [] l = "Load3" -> [bus |-> BusName(3), p_set |-> 40]
          [] l = "Load4" -> [bus |-> BusName(4), p_set |-> 80]]

\* the network after lines 49-78: nothing solved yet
BaseNetwork(snaps) ==
    [buses      |-> Buses,
     loads      |-> BaseLoads,
     lines      |-> BaseLines,
     generators |-> BaseGenerators,
     p          |-> [s \in snaps |-> <<>>],
     objective  |-> None]

-----------------------------------------------------------------------------
(* The external optimiser *)

\* groups of generators the optimiser may run
HotSets == {{"G0", "Unserved_4"}, {"G1", "Unserved_4", "Unserved_Bus 4"}}

\* the dispatch table that runs the generators of hot at level v
Table(net, snaps, hot, v) ==
    [s \in snaps |-> [g \in DOMAIN net.generators |-> IF g \in hot THEN v ELSE 0]]

\* the dispatch tables an ok solve of net may return
SolverTables(net, snaps) ==
    {Table(net, snaps, hot, v) : hot \in HotSets, v \in 1..MaxP}

\* the objective of a dispatch: marginal cost times dispatch, summed
Objective(net, p) ==
    SumSet([s \in DOMAIN p |->
                SumSet([g \in DOMAIN p[s] |-> net.generators[g].marginal_cost * p[s][g]],
                       DOMAIN p[s])],
           DOMAIN p)

\* what a solve leaves in the network object, by the status it returns:
\* the solution is assigned on "ok" only
Optimized(net, status, p) ==
    IF status = "ok"
    THEN [net EXCEPT !.p = p, !.objective = Some(Objective(net, p))]
    ELSE net

Statuses == {"ok", "infeasible", "other"}

\* a solve that returns no solution
NoSolution(status) == [status |-> status, hot |-> {}, v |-> 0]

\* the answers of an optimiser: a solution, a status that is not ok, or an exception
SolverAnswers ==
    {[status |-> "ok", hot |-> hot, v |-> v] : hot \in HotSets, v \in 1..MaxP}
    \cup {NoSolution(status) : status \in (Statuses \ {"ok"}) \cup {"raised"}}

\* what tells the problems given to the optimiser apart: the lines taken out
\* (loads, generators and costs are the same in every network of the script)
Problem(net) == {l \in DOMAIN net.lines : net.lines[l].s_nom = 0}

\* the answer of the deterministic optimiser f to the problem of net; f lists
\* its answers to the base problem and to the single outages, a network
\* with anything else taken out has no solution
AnswerOf(f, net) ==
    IF Problem(net) \in DOMAIN f THEN f[Problem(net)] ELSE NoSolution("infeasible")

\* the optimisers: any (every outcome possible at every call), one with
\* fixed answers f, or one that solves the linear programme exactly
AnySolver == [kind |-> "any", answers |-> <<>>]

FixedSolver(f) == [kind |-> "fixed", answers |-> f]

LPSolver == [kind |-> "lp", answers |-> <<>>]

\* the buses joined to b by lines that can carry power
RECURSIVE Island(_, _)
Island(net, reached) ==
    LET more == {b \in net.buses :
                    \E l \in DOMAIN net.lines :
                        /\ net.lines[l].s_nom > 0
                        /\ \/ net.lines[l].bus0 \in reached /\ net.lines[l].bus1 = b
                           \/ net.lines[l].bus1 \in reached /\ net.lines[l].bus0 = b}
    IN IF more \subseteq reached THEN reached ELSE Island(net, reached \cup more)

Islands(net) == {Island(net, {b}) : b \in net.buses}

\* the load of the buses of island
Demand(net, island) ==
    SumSet([l \in DOMAIN net.loads |-> net.loads[l].p_set],
           {l \in DOMAIN net.loads : net.loads[l].bus \in island})

\* the generators of island with marginal cost c, or cheaper than c
GensAt(net, island, c) ==
    {g \in DOMAIN net.generators :
        net.generators[g].bus \in island /\ net.generators[g].marginal_cost = c}

CapacityBelow(net, island, c) ==
    SumSet([g \in DOMAIN net.generators |-> net.generators[g].p_nom],
           {g \in DOMAIN net.generators :
               net.generators[g].bus \in island /\ net.generators[g].marginal_cost < c})

\* merit order: what the generators of cost c supply in a cheapest dispatch
\* of island, once everything cheaper runs at its capacity
NeededAt(net, island, c) ==
    LET left == Demand(net, island) - CapacityBelow(net, island, c)
        cap  == SumSet([g \in DOMAIN net.generators |-> net.generators[g].p_nom],
                       GensAt(net, island, c))
    IN IF left <= 0 THEN 0 ELSE IF left <= cap THEN left ELSE cap

\* the ways the generators of one cost share what is needed from them
Splits(net, island, c) ==
    LET gens == GensAt(net, island, c)
        need == NeededAt(net, island, c)
    IN {f \in [gens -> 0..need] :
           /\ SumSet(f, gens) = need
           /\ \A g \in gens : f[g] <= net.generators[g].p_nom}

\* the groups of generators of equal cost, island by island
CostGroups(net) ==
    UNION {{<<island, net.generators[g].marginal_cost>> :
               g \in {h \in DOMAIN net.generators : net.generators[h].bus \in island}} :
           island \in Islands(net)}

RECURSIVE MeritRows(_, _)
\* the cheapest dispatches of one snapshot: one split per group
MeritRows(net, groups) ==
    IF groups = {} THEN {[g \in {} |-> 0]}
    ELSE LET grp == CHOOSE x \in groups : TRUE
         IN {f @@ r : f \in Splits(net, grp[1], grp[2]), r \in MeritRows(net, groups \ {grp})}

\* the optimal dispatch tables of net: in every snapshot each island's load
\* is met at least cost (the line limits of lines 69-74 do not bind in any
\* network of the script)
OptimalDispatches(net, snaps) == [snaps -> MeritRows(net, CostGroups(net))]

\* the dispatch tables slv can return with status ok
Solutions(slv, net, snaps) ==
    IF slv.kind = "lp" THEN OptimalDispatches(net, snaps) ELSE SolverTables(net, snaps)

\* slv may return status with table p for net
MayReturn(slv, net, snaps, status, p) ==
    CASE slv.kind = "any"   -> TRUE
      [] slv.kind = "lp"    -> status = "ok"
      [] slv.kind = "fixed" ->
            LET a == AnswerOf(slv.answers, net)
            IN /\ a.status = status
               /\ status = "ok" => p = Table(net, snaps, a.hot, a.v)

\* the call of slv may raise for net; with an exact solver only for
\* reasons outside the problem (solver not installed, interrupted)
MayRaise(slv, net) ==
    IF slv.kind = "fixed" THEN AnswerOf(slv.answers, net).status = "raised" ELSE TRUE

-----------------------------------------------------------------------------
(* 2. Export and reload, lines 86 and 97 *)

\* n.export_to_netcdf("base_network.nc"): the network is exported after the
\* base solve, with the dispatch it holds; keepsObjective says whether the
\* library writes the objective attribute as well
Export(net, keepsObjective) ==
    [net EXCEPT !.objective = IF keepsObjective THEN net.objective ELSE None]

\* an export that leaves an existing file as it is
WriteFileIfAbsent(old, content) == IF old = None THEN Some(content) ELSE old

\* export_to_netcdf writes the file anew, whatever was at the path
WriteFile(old, content) == Some(content)

\* a reload that hands back the base object itself instead of a new one
LoadNetworkAliased(heap, f, i) ==
    [ref |-> 0, heap |-> heap]

\* pypsa.Network("base_network.nc"): a new object with the content of the file
LoadNetwork(heap, f, i) ==
    [ref |-> i, heap |-> (i :> f) @@ heap]

-----------------------------------------------------------------------------
(* 3. Scenario build, lines 98-102 *)

\* m.lines.at[line, "s_nom"] = 0 ; .at with a new label enlarges the frame
ApplyOutage(net, line) ==
    IF line \in DOMAIN net.lines
    THEN [net EXCEPT !.lines[line].s_nom = 0]
    ELSE [net EXCEPT !.lines = (line :> [bus0 |-> "nan", bus1 |-> "nan", s_nom |-> 0]) @@ @]

\* f"Unserved_{bus}"
UnservedName(bus) == "Unserved_" \o bus

\* lines 100-102
AddUnservedGuard(net) ==
    LET missing == {b \in net.buses : UnservedName(b) \notin DOMAIN net.generators}
    IN [net EXCEPT !.generators =
            [g \in {UnservedName(b) : b \in missing} |->
                UnservedGen(CHOOSE b \in missing : g = UnservedName(b))] @@ @]

-----------------------------------------------------------------------------
(* Result handling, lines 105-115 *)

\* line 105: if m.objective is None
ClassifiedInfeasible(net) == net.objective = None

\* line 111: m.generators_t.p.filter(like="Unserved").sum(axis=1).values[0]
UnservedSum(p) ==
    LET first == CHOOSE s \in DOMAIN p : \A t \in DOMAIN p : s <= t
        cols  == {c \in DOMAIN p[first] : Contains(c, "Unserved")}
    IN SumSet(p[first], cols)

\* pd.concat(frames).groupby(level=0).max()
GroupMax(frames) ==
    LET rows == UNION {DOMAIN frames[i] : i \in DOMAIN frames}
        cols == UNION {DOMAIN frames[i][s] : i \in DOMAIN frames, s \in rows}
    IN [s \in rows |->
            [c \in cols |-> Max({frames[i][s][c] :
                                   i \in {j \in DOMAIN frames : c \in DOMAIN frames[j][s]}})]]

\* line 115
ConservativeDispatch(frames, base) ==
    IF frames # <<>> THEN GroupMax(frames) ELSE base

-----------------------------------------------------------------------------
(* 4. Plot, lines 120-151 *)

\* frame["type"] = label
WithType(frame, label) ==
    [s \in DOMAIN frame |-> ("type" :> label) @@ frame[s]]

PlotGenerators == {"G0", "G1", "G2", "G3"}

\* line 137: the first row of the melted frame for (gen, mode)
BarValue(frame, gen) ==
    LET first == CHOOSE s \in DOMAIN frame : \A t \in DOMAIN frame : s <= t
    IN frame[first][gen]

-----------------------------------------------------------------------------
(* 5. Summary statistics, lines 156-160 *)

\* round(num/den, 2) in hundredths, ties to even
Round2(num, den) ==
    LET q == (100 * num) \div den
        r == (100 * num) % den
    IN IF 2 * r > den \/ (2 * r = den /\ q % 2 = 1) THEN q + 1 ELSE q

\* np.mean: nan for an empty list
PrintedMean(label, xs) ==
    IF xs = <<>>
    THEN [label |-> label, nan |-> TRUE, hundredths |-> 0]
    ELSE [label |-> label, nan |-> FALSE, hundredths |-> Round2(SumSeq(xs), Len(xs))]

\* np.max of a non-empty list
PrintedMax(label, xs) ==
    [label |-> label, nan |-> FALSE, hundredths |-> Round2(Max(Range(xs)), 1)]

\* the lines 156-160 print, up to the first call that raises
Summary(cost, costs, unserved) ==
    LET l156 == [label |-> "Base OPF cost:", nan |-> FALSE, hundredths |-> Round2(cost, 1)]
        l157 == PrintedMean("Average SCOPF contingency cost:", costs)
        l159 == PrintedMean("Average unserved energy (MW) in SCOPF cases:", unserved)
    IN IF costs = <<>> THEN <<l156, l157>>
       ELSE IF unserved = <<>>
            THEN <<l156, l157, PrintedMax("Worst-case SCOPF contingency cost:", costs), l159>>
            ELSE <<l156, l157, PrintedMax("Worst-case SCOPF contingency cost:", costs), l159,
                   PrintedMax("Max unserved energy (MW) in SCOPF cases:", unserved)>>

\* np.max of an empty list raises ValueError
SummaryRaises(costs, unserved) == costs = <<>> \/ unserved = <<>>

-----------------------------------------------------------------------------
(* The script *)

\* a loop that is left after its first iteration
LoopFinishedEarly(i, lines) == i > 1

\* line 96: the for loop has gone through contingency_lines
LoopFinished(i, lines) == i > Len(lines)

\* the state in which the interpreter starts the script: slv is the
\* optimiser installed, leftover the base_network.nc found in the directory
InitRun(snaps, candidates, slv, leftover) ==
    /\ pc = "start"
    /\ exc = None
    /\ persists \in BOOLEAN
    /\ solver = slv
    /\ snapshots = snaps
    /\ n = 0
    /\ nets = (0 :> BaseNetwork(snaps))
    /\ m = None
    /\ file = leftover
    /\ found = leftover
    /\ ofp_dispatch = None
    /\ ofp_cost = None
    /\ contingency_lines = candidates
    /\ idx = 1
    /\ scopf_dispatches = <<>>
    /\ scopf_costs = <<>>
    /\ scopf_unserved = <<>>
    /\ scopf_dispatch = None
    /\ bars = None
    /\ stdout = <<>>
    /\ solves = <<>>
    /\ globals = <<>>

InitWith(snaps, candidates) == InitRun(snaps, candidates, AnySolver, None)

Init == InitWith(1..Periods, <<"Line_0_1", "Line_1_4", "Line_1_2", "Line_2_3", "Line_3_0">>)

\* an uncaught exception ends the script
Raise(e) ==
    /\ pc' = "crashed"
    /\ exc' = Some(e)

\* lines 83-86: the base solve succeeds
BaseSolve ==
    /\ pc = "start"
    /\ \E p \in Solutions(solver, nets[n], snapshots) :
          LET solved == Optimized(nets[n], "ok", p)
          IN /\ MayReturn(solver, nets[n], snapshots, "ok", p)
             /\ nets' = [nets EXCEPT ![n] = solved]
             /\ ofp_dispatch' = Some(solved.p)
             /\ ofp_cost' = solved.objective
             /\ file' = WriteFile(file, Export(solved, persists))
             /\ solves' = Append(solves, [line |-> "base", status |-> "ok",
                                          p |-> Some(p), objective |-> solved.objective])
    /\ pc' = "loop"
    /\ UNCHANGED <<exc, globals, persists, solver, found, snapshots, n, m, contingency_lines, idx, scopf_dispatches,
                   scopf_costs, scopf_unserved, scopf_dispatch, bars, stdout>>

\* lines 83-85: the base solve does not succeed; a network that was never
\* solved has no objective to read
BaseSolveFails ==
    /\ pc = "start"
    /\ \/ MayRaise(solver, nets[n])
       \/ \E status \in Statuses \ {"ok"} : MayReturn(solver, nets[n], snapshots, status, None)
    /\ Raise("SolverError")
    /\ UNCHANGED <<globals, persists, solver, found, snapshots, nets, n, m, file, ofp_dispatch, ofp_cost,
                   contingency_lines, idx, scopf_dispatches, scopf_costs, scopf_unserved,
                   scopf_dispatch, bars, stdout, solves>>

\* lines 96-102: reload the base network, outage the line, guard the unserved generators
Build ==
    /\ pc = "loop"
    /\ idx <= Len(contingency_lines)
    /\ LET line   == contingency_lines[idx]
           loaded == LoadNetwork([r \in {n} |-> nets[r]], Val(file), idx)
           built  == AddUnservedGuard(ApplyOutage(loaded.heap[loaded.ref], line))
       IN /\ m' = Some(loaded.ref)
          /\ nets' = [loaded.heap EXCEPT ![loaded.ref] = built]
    /\ pc' = "built"
    /\ UNCHANGED <<exc, globals, persists, solver, found, snapshots, n, file, ofp_dispatch, ofp_cost,
                   contingency_lines, idx, scopf_dispatches, scopf_costs, scopf_unserved,
                   scopf_dispatch, bars, stdout, solves>>

\* lines 104-112: the optimiser returns a status
Solve ==
    /\ pc = "built"
    /\ \E status \in Statuses :
       \E p \in IF status = "ok" THEN Solutions(solver, nets[Val(m)], snapshots) ELSE {None} :
          LET line   == contingency_lines[idx]
              solved == Optimized(nets[Val(m)], status, p)
          IN /\ MayReturn(solver, nets[Val(m)], snapshots, status, p)
             /\ nets' = [nets EXCEPT ![Val(m)] = solved]
             /\ solves' = Append(solves,
                                 [line |-> line, status |-> status,
                                  p |-> IF status = "ok" THEN Some(p) ELSE None,
                                  objective |-> IF status = "ok" THEN solved.objective ELSE None])
             /\ IF ClassifiedInfeasible(solved)
                THEN /\ stdout' = Append(stdout, [label |-> "Infeasible for outage: " \o line,
                                                  nan |-> FALSE, hundredths |-> 0])
                     /\ UNCHANGED <<scopf_dispatches, scopf_costs, scopf_unserved>>
                ELSE /\ scopf_dispatches' = Append(scopf_dispatches, solved.p)
                     /\ scopf_costs' = Append(scopf_costs, Val(solved.objective))
                     /\ scopf_unserved' = Append(scopf_unserved, UnservedSum(solved.p))
                     /\ UNCHANGED stdout
    /\ idx' = idx + 1
    /\ pc' = "loop"
    /\ UNCHANGED <<exc, globals, persists, solver, found, snapshots, n, m, file, ofp_dispatch, ofp_cost,
                   contingency_lines, scopf_dispatch, bars>>

\* line 104: the optimiser call raises
SolveRaises ==
    /\ pc = "built"
    /\ MayRaise(solver, nets[Val(m)])
    /\ Raise("SolverError")
    /\ solves' = Append(solves, [line |-> contingency_lines[idx], status |-> "raised",
                                 p |-> None, objective |-> None])
    /\ UNCHANGED <<globals, persists, solver, found, snapshots, nets, n, m, file, ofp_dispatch, ofp_cost,
                   contingency_lines, idx, scopf_dispatches, scopf_costs, scopf_unserved,
                   scopf_dispatch, bars, stdout>>

\* line 115
Aggregate ==
    /\ pc = "loop"
    /\ LoopFinished(idx, contingency_lines)
    /\ scopf_dispatch' = Some(ConservativeDispatch(scopf_dispatches, Val(ofp_dispatch)))
    /\ pc' = "aggregated"
    /\ UNCHANGED <<exc, globals, persists, solver, found, snapshots, nets, n, m, file, ofp_dispatch, ofp_cost,
                   contingency_lines, idx, scopf_dispatches, scopf_costs, scopf_unserved,
                   bars, stdout, solves>>

\* lines 120-151
Plot ==
    /\ pc = "aggregated"
    /\ LET base   == WithType(Val(ofp_dispatch), "Base OPF")
           strict == WithType(Val(scopf_dispatch), "Strict SCOPF")
       IN /\ ofp_dispatch' = Some(base)
          /\ scopf_dispatch' = Some(strict)
          /\ bars' = Some([mode \in {"Base OPF", "Strict SCOPF"} |->
                            [g \in PlotGenerators |->
                                BarValue(IF mode = "Base OPF" THEN base ELSE strict, g)]])
    /\ pc' = "plotted"
    /\ UNCHANGED <<exc, globals, persists, solver, found, snapshots, nets, n, m, file, ofp_cost,
                   contingency_lines, idx, scopf_dispatches, scopf_costs, scopf_unserved,
                   stdout, solves>>

\* lines 156-160
Report ==
    /\ pc = "plotted"
    /\ stdout' = stdout \o Summary(Val(ofp_cost), scopf_costs, scopf_unserved)
    /\ IF SummaryRaises(scopf_costs, scopf_unserved)
       THEN Raise("ValueError")
       ELSE pc' = "done" /\ UNCHANGED exc
    /\ UNCHANGED <<globals, persists, solver, found, snapshots, nets, n, m, file, ofp_dispatch, ofp_cost,
                   contingency_lines, idx, scopf_dispatches, scopf_costs, scopf_unserved,
                   scopf_dispatch, bars, solves>>

Next ==
    \/ BaseSolve
    \/ BaseSolveFails
    \/ Build
    \/ Solve
    \/ SolveRaises
    \/ Aggregate
    \/ Plot
    \/ Report

Spec == Init /\ [][Next]_vars

-----------------------------------------------------------------------------
(* The same script on other inputs: one candidate, which may name a line   *)
(* the base network does not have, and up to AltPeriods snapshots.         *)

CandidateNames == DOMAIN BaseLines \cup {"Line_4_0"}

InitInputs ==
    \E k \in 1..AltPeriods, l \in CandidateNames : InitWith(1..k, <<l>>)

SpecInputs == InitInputs /\ [][Next]_vars

-----------------------------------------------------------------------------
(* Vocabulary of the properties *)

\* the optimiser's answers to the scenario solves, in the order of the calls
ScenarioSolves == IF solves = <<>> THEN <<>> ELSE Tail(solves)

\* positions of the candidates whose solve was feasible
FeasibleAt == {k \in DOMAIN ScenarioSolves : ScenarioSolves[k].status = "ok"}

\* every candidate has been solved
AllSolved == Len(ScenarioSolves) = Len(contingency_lines)

\* the dispatch tables of the feasible scenarios
FeasibleTables == {Val(ScenarioSolves[k].p) : k \in FeasibleAt}

\* the line printed for an infeasible candidate
InfeasibleLine(line) ==
    [label |-> "Infeasible for outage: " \o line, nan |-> FALSE, hundredths |-> 0]

\* a frame without its "type" column
Unlabelled(frame) ==
    [s \in DOMAIN frame |-> [c \in DOMAIN frame[s] \ {"type"} |-> frame[s][c]]]

\* total dispatch of the generators of carrier "unserved", over all snapshots
TotalUnserved(net, p) ==
    SumSet([s \in DOMAIN p |->
                SumSet(p[s], {g \in DOMAIN p[s] : net.generators[g].carrier = "unserved"})],
           DOMAIN p)

-----------------------------------------------------------------------------
(* Properties *)

\* C1: during the contingency loop (scenario build and scenario solve) the
\* base network n, the saved base dispatch ofp_dispatch and the base cost
\* ofp_cost keep the values they had after the base solve.
C1_BaseUnchangedByLoop ==
    [][(pc \in {"loop", "built"} /\ pc' \in {"loop", "built", "crashed"})
         => (/\ nets'[n'] = nets[n]
             /\ ofp_dispatch' = ofp_dispatch
             /\ ofp_cost' = ofp_cost)]_vars

\* C1 witness: two scenarios were built, the last one has its line at 0 and
\* the added generators, and the base network still has the line at 100.
C1_Witness ==
    /\ pc = "loop"
    /\ idx = 3
    /\ nets[Val(m)].lines[contingency_lines[2]].s_nom = 0
    /\ nets[n].lines[contingency_lines[2]].s_nom = 100
    /\ DOMAIN nets[Val(m)].generators # DOMAIN nets[n].generators
    /\ Val(ofp_dispatch) = Val(solves[1].p)

\* C2: with at least one feasible scenario, the conservative dispatch is, per
\* generator and snapshot, the maximum over the feasible scenarios' dispatch:
\* it dominates each of them and is attained by one of them.
C2_ConservativeIsMaxOverFeasible ==
    (pc = "aggregated" /\ FeasibleAt # {})
      => \A s \in DOMAIN Val(scopf_dispatch) : \A g \in DOMAIN Val(scopf_dispatch)[s] :
            /\ \A t \in FeasibleTables : g \in DOMAIN t[s] => t[s][g] <= Val(scopf_dispatch)[s][g]
            /\ \E t \in FeasibleTables : g \in DOMAIN t[s] /\ t[s][g] = Val(scopf_dispatch)[s][g]

\* C3: a candidate whose solve is infeasible is reported and nothing of it
\* enters the result lists: the lists hold no more entries than there are
\* candidates whose solve was not infeasible.
C3_InfeasibleReportedAndExcluded ==
    LET notInfeasible == {k \in DOMAIN ScenarioSolves :
                              ScenarioSolves[k].status \in {"ok", "other"}}
    IN /\ \A k \in DOMAIN ScenarioSolves :
             ScenarioSolves[k].status = "infeasible"
               => InfeasibleLine(ScenarioSolves[k].line) \in Range(stdout)
       /\ Len(scopf_dispatches) <= Cardinality(notInfeasible)
       /\ Len(scopf_costs) <= Cardinality(notInfeasible)
       /\ Len(scopf_unserved) <= Cardinality(notInfeasible)

\* C4: a solver failure other than proven infeasibility is fatal: once the
\* optimiser has answered a scenario solve with such a failure, the run is
\* aborted (no later scenario, no aggregation, no report).
C4_SolverFaultIsFatal ==
    (\E k \in DOMAIN ScenarioSolves : ScenarioSolves[k].status = "other")
      => pc = "crashed"

\* C5: with no feasible scenario the conservative dispatch is the base
\* dispatch and it is not presented under the label of a computed
\* conservative dispatch.
C5_FallbackDistinguishable ==
    (pc = "plotted" /\ FeasibleAt = {})
      => /\ Unlabelled(Val(scopf_dispatch)) = Unlabelled(Val(ofp_dispatch))
         /\ \A s \in DOMAIN Val(scopf_dispatch) : Val(scopf_dispatch)[s]["type"] # "Strict SCOPF"

\* C6: with no feasible scenario the summary ends the run with an error and
\* prints no ordinary number for a cost or unserved statistic of the scenarios.
C6_EmptyAggregateFlagged ==
    (pc \in {"done", "crashed"} /\ AllSolved /\ FeasibleAt = {})
      => /\ pc = "crashed"
         /\ \A i \in DOMAIN stdout :
               (stdout[i].label \in {"Average SCOPF contingency cost:",
                                     "Worst-case SCOPF contingency cost:",
                                     "Average unserved energy (MW) in SCOPF cases:",
                                     "Max unserved energy (MW) in SCOPF cases:"})
                 => stdout[i].nan

C8_StatisticsOverFeasibleOnly ==
    (pc = "done")
      => LET ks    == FeasibleAt
             cost  == [k \in ks |-> Val(ScenarioSolves[k].objective)]
             uns   == [k \in ks |-> UnservedSum(Val(ScenarioSolves[k].p))]
             at(l) == stdout[CHOOSE i \in DOMAIN stdout : stdout[i].label = l]
         IN /\ ks # {}
            /\ at("Average SCOPF contingency cost:").hundredths
                 = Round2(SumSet(cost, ks), Cardinality(ks))
            /\ at("Worst-case SCOPF contingency cost:").hundredths
                 = 100 * Max({cost[k] : k \in ks})
            /\ at("Average unserved energy (MW) in SCOPF cases:").hundredths
                 = Round2(SumSet(uns, ks), Cardinality(ks))
            /\ at("Max unserved energy (MW) in SCOPF cases:").hundredths
                 = 100 * Max({uns[k] : k \in ks})

C10_ResultsAlignedWithCandidates ==
    /\ \A i \in DOMAIN scopf_costs :
          /\ i \in FeasibleAt
          /\ scopf_costs[i] = Val(ScenarioSolves[i].objective)
          /\ scopf_dispatches[i] = Val(ScenarioSolves[i].p)
    /\ (pc = "aggregated" => Len(scopf_costs) = Len(contingency_lines))

\* the labels of the four statistics of lines 157-160
StatLabels ==
    {"Average SCOPF contingency cost:", "Worst-case SCOPF contingency cost:",
     "Average unserved energy (MW) in SCOPF cases:", "Max unserved energy (MW) in SCOPF cases:"}

\* a solver failure that is not a proven infeasibility has occurred
FatalSeen ==
    \/ \E k \in DOMAIN ScenarioSolves : ScenarioSolves[k].status \in {"other", "raised"}
    \/ exc = Some("SolverError")

\* the steps of Built -> (Solving -> Feasible | Infeasible | Fatal)* -> Aggregated -> Reported
PhaseSteps ==
    {<<"start", "loop">>, <<"start", "crashed">>, <<"loop", "built">>, <<"built", "loop">>,
     <<"built", "crashed">>, <<"loop", "aggregated">>, <<"aggregated", "plotted">>,
     <<"plotted", "done">>}

\* C11: the run follows Built -> (Solving -> Feasible | Infeasible | Fatal)*
\* -> Aggregated -> Reported: the base solve comes first, nothing happens
\* after a Fatal outcome, and a run that is not ended by a Fatal outcome ends
\* in Reported.
C11_HarnessStateMachine ==
    /\ [][(<<pc, pc'>>) \in PhaseSteps]_vars
    /\ [][~FatalSeen]_vars
    /\ [](pc = "crashed" => FatalSeen)

\* C12: the conservative dispatch and the statistics exist only once every
\* candidate has been solved or classified; none is computed while a
\* candidate is still to be built or solved.
C12_AggregationAfterAllSolves ==
    (\/ pc \in {"aggregated", "plotted", "done"}
     \/ scopf_dispatch # None
     \/ \E i \in DOMAIN stdout : stdout[i].label \in StatLabels)
      => /\ AllSolved
         /\ idx = Len(contingency_lines) + 1
         /\ pc # "built"

\* C12 witness: the report is out after five solves of which some were skipped.
C12_Witness ==
    /\ pc = "done"
    /\ Len(ScenarioSolves) = 5
    /\ Len(scopf_costs) \in 1..4
    /\ scopf_dispatch # None

\* the statements the interpreter executes by itself; the return of
\* optimize (lines 83, 104) is the solver's step, not the script's
ScriptStep == Build \/ Aggregate \/ Plot \/ Report

\* the script keeps running, the solver is not assumed to return
SpecScriptFair == Init /\ [][Next]_vars /\ WF_vars(ScriptStep)

\* C20: every solver invocation of a scenario is bounded by a timeout: a
\* scenario whose network has been given to the solver is always left again,
\* as solved, classified or Fatal, whether or not the solver returns.
C20_SolveBoundedByTimeout == (pc = "built") ~> (pc \in {"loop", "crashed"})

-----------------------------------------------------------------------------
(* The script under one deterministic optimiser, on every order of the     *)
(* same candidates.                                                        *)

\* the candidates in the order of line 91 (its first three)
CanonicalOrder == <<"Line_0_1", "Line_1_4", "Line_1_2">>

\* the orders in which the lines of S can be listed
Orders(S) == {q \in [1..Cardinality(S) -> S] : Range(q) = S}

\* the deterministic optimisers: one answer to the base problem and one to
\* each single outage
Solvers(S) == [{{}} \cup {{l} : l \in S} -> SolverAnswers]

InitPermuted ==
    \E order \in Orders(Range(CanonicalOrder)), f \in Solvers(Range(CanonicalOrder)) :
        InitRun(1..Periods, order, FixedSolver(f), None)

SpecPermuted == InitPermuted /\ [][Next]_vars

\* lines 97-104 as a function of the file and the line alone: the network
\* object after the solve of the scenario of line
ScenarioResult(f, base, snaps, line) ==
    LET net == AddUnservedGuard(ApplyOutage(base, line))
        a   == AnswerOf(f, net)
    IN Optimized(net, a.status, Table(net, snaps, a.hot, a.v))

\* the optimiser's answer to the scenario of line, as the solve log keeps it
ScenarioAnswer(f, base, snaps, line) ==
    LET a   == AnswerOf(f, AddUnservedGuard(ApplyOutage(base, line)))
        res == ScenarioResult(f, base, snaps, line)
    IN [line |-> line, status |-> a.status,
        p |-> IF a.status = "ok" THEN Some(res.p) ELSE None,
        objective |-> IF a.status = "ok" THEN res.objective ELSE None]

\* the candidates of order that lines 105-107 do not skip
Kept(f, base, snaps, order) ==
    SelectSeq(order, LAMBDA l : ~ClassifiedInfeasible(ScenarioResult(f, base, snaps, l)))

\* lines 108-111 over the candidates of order
KeptDispatches(f, base, snaps, order) ==
    LET kept == Kept(f, base, snaps, order)
    IN [k \in DOMAIN kept |-> ScenarioResult(f, base, snaps, kept[k]).p]

KeptCosts(f, base, snaps, order) ==
    LET kept == Kept(f, base, snaps, order)
    IN [k \in DOMAIN kept |-> Val(ScenarioResult(f, base, snaps, kept[k]).objective)]

KeptUnserved(f, base, snaps, order) ==
    LET kept == Kept(f, base, snaps, order)
    IN [k \in DOMAIN kept |-> UnservedSum(ScenarioResult(f, base, snaps, kept[k]).p)]

\* the last Len(t) lines printed are t
PrintedLast(t) ==
    /\ Len(stdout) >= Len(t)
    /\ SubSeq(stdout, Len(stdout) - Len(t) + 1, Len(stdout)) = t

\* C13: under a deterministic optimiser every order of the same candidates
\* gives each candidate the result it has in the order of line 91, and the
\* conservative dispatch and the statistics of the run in that order.
C13_OrderIndependent ==
    (solver.kind = "fixed" /\ file # None) =>
        LET f    == solver.answers
            base == Val(file)
        IN /\ \A k \in DOMAIN ScenarioSolves :
                 ScenarioSolves[k] = ScenarioAnswer(f, base, snapshots, contingency_lines[k])
           /\ LET solved == SubSeq(contingency_lines, 1, idx - 1)
              IN /\ scopf_dispatches = KeptDispatches(f, base, snapshots, solved)
                 /\ scopf_costs = KeptCosts(f, base, snapshots, solved)
                 /\ scopf_unserved = KeptUnserved(f, base, snapshots, solved)
           /\ scopf_dispatch # None =>
                 Unlabelled(Val(scopf_dispatch)) =
                     ConservativeDispatch(KeptDispatches(f, base, snapshots, CanonicalOrder),
                                          Unlabelled(Val(ofp_dispatch)))
           /\ pc = "done" =>
                 PrintedLast(Summary(Val(ofp_cost),
                                     KeptCosts(f, base, snapshots, CanonicalOrder),
                                     KeptUnserved(f, base, snapshots, CanonicalOrder)))

\* C13 witness: a run in another order than line 91's has reported, with a
\* skipped candidate and two kept ones of different cost.
C13_Witness ==
    /\ solver.kind = "fixed"
    /\ contingency_lines # CanonicalOrder
    /\ pc = "done"
    /\ Len(scopf_costs) = 2
    /\ scopf_costs[1] # scopf_costs[2]

-----------------------------------------------------------------------------
(* The script run again in a directory where an earlier run may have left  *)
(* its base_network.nc.                                                    *)

\* the candidates of the repeated run (the first two of line 91)
RerunOrder == <<"Line_0_1", "Line_1_4">>

\* what an earlier run of the script can have left at base_network.nc:
\* nothing, or the export of its solved base network
Leftovers ==
    {None} \cup {Some(Export(Optimized(BaseNetwork(1..Periods), "ok", p), keeps)) :
                    p \in SolverTables(BaseNetwork(1..Periods), 1..Periods), keeps \in BOOLEAN}

InitRerun ==
    \E f \in Solvers(Range(RerunOrder)), leftover \in Leftovers :
        InitRun(1..Periods, RerunOrder, FixedSolver(f), leftover)

SpecRerun == InitRerun /\ [][Next]_vars

\* the file a run with optimiser f writes at line 86, whatever it found
FreshExport(f, snaps, keeps) ==
    LET net == BaseNetwork(snaps)
        a   == AnswerOf(f, net)
    IN Export(Optimized(net, a.status, Table(net, snaps, a.hot, a.v)), keeps)

\* C14: a run with the same base network, candidates and deterministic
\* optimiser gives the same scenario results, conservative dispatch and
\* statistics whatever an earlier run left in base_network.nc.
C14_RerunIdentical ==
    (solver.kind = "fixed" /\ pc \notin {"start", "crashed"}) =>
        LET f     == solver.answers
            fresh == FreshExport(f, snapshots, persists)
            done  == SubSeq(contingency_lines, 1, idx - 1)
        IN /\ file = Some(fresh)
           /\ scopf_dispatches = KeptDispatches(f, fresh, snapshots, done)
           /\ scopf_costs = KeptCosts(f, fresh, snapshots, done)
           /\ scopf_unserved = KeptUnserved(f, fresh, snapshots, done)
           /\ scopf_dispatch # None =>
                 Unlabelled(Val(scopf_dispatch)) =
                     ConservativeDispatch(KeptDispatches(f, fresh, snapshots, contingency_lines),
                                          fresh.p)
           /\ pc = "done" =>
                 PrintedLast(Summary(Val(FreshExport(f, snapshots, TRUE).objective),
                                     KeptCosts(f, fresh, snapshots, contingency_lines),
                                     KeptUnserved(f, fresh, snapshots, contingency_lines)))

\* C14 witness: a run that found the file of an earlier run with another
\* base dispatch has reported, with a candidate kept.
C14_Witness ==
    /\ solver.kind = "fixed"
    /\ pc = "done"
    /\ scopf_costs # <<>>
    /\ found # None
    /\ Val(found).p # Val(file).p

-----------------------------------------------------------------------------
(* The script while another run of it works in the same directory.         *)

\* line 86 of another run of the script: it exports its solved base network
\* to the same path "base_network.nc"
OtherRunExports ==
    /\ pc \in {"loop", "built"}
    /\ \E p \in SolverTables(BaseNetwork(snapshots), snapshots) :
          file' = WriteFile(file, Export(Optimized(BaseNetwork(snapshots), "ok", p), persists))
    /\ file' # file
    /\ UNCHANGED <<pc, exc, globals, persists, solver, found, snapshots, nets, n, m, ofp_dispatch,
                   ofp_cost, contingency_lines, idx, scopf_dispatches, scopf_costs,
                   scopf_unserved, scopf_dispatch, bars, stdout, solves>>

NextConcurrent == Next \/ OtherRunExports

SpecConcurrent == Init /\ [][NextConcurrent]_vars

\* C15: the serialized network a scenario is loaded from is scoped to that
\* scenario of that run: what line 97 reads is what this run exported from
\* its own base network, never a network written by another run.
C15_ScenarioReadsOwnExport ==
    [][(pc = "loop" /\ pc' = "built") => file = Some(Export(nets[n], persists))]_vars

-----------------------------------------------------------------------------
(* The script with an optimiser that solves each linear programme exactly. *)

InitLP ==
    InitRun(1..Periods, <<"Line_0_1", "Line_1_4", "Line_1_2", "Line_2_3", "Line_3_0">>,
            LPSolver, None)

SpecLP == InitLP /\ [][Next]_vars

\* the solves of the outage of line that returned
ReturnedFor(line) ==
    {k \in DOMAIN ScenarioSolves :
        ScenarioSolves[k].line = line /\ ScenarioSolves[k].status # "raised"}

\* the generators of carrier "unserved" at bus
UnservedAt(net, bus) ==
    {g \in DOMAIN net.generators :
        net.generators[g].bus = bus /\ net.generators[g].carrier = "unserved"}

\* the scenario at position k is recorded as feasible with unserved energy mw
RecordedFeasible(k, mw) ==
    /\ ScenarioSolves[k].status = "ok"
    /\ InfeasibleLine(ScenarioSolves[k].line) \notin Range(stdout)
    /\ Len(scopf_unserved) >= k
    /\ scopf_unserved[k] = mw

-----------------------------------------------------------------------------
(* The microgrid study of Chapter 6 (src/Chapter 6/Chapter_6_CS_1.py).     *)
(* The three profiles come from a CSV file: they are inputs.  Networks     *)
(* live in the heap nets, the script's variables in globals.  Every        *)
(* network has one bus and generators of different marginal cost, so the   *)
(* optimum of each solve is the merit order.                               *)

\* the scripts other than the contingency harness leave its variables alone
harnessVars ==
    <<persists, solver, found, snapshots, n, m, file, ofp_dispatch, ofp_cost,
      contingency_lines, idx, scopf_dispatches, scopf_costs, scopf_unserved,
      scopf_dispatch, bars, solves>>

\* the variables of the harness while another script runs
HarnessIdle(snaps) ==
    /\ persists = FALSE
    /\ solver = LPSolver
    /\ found = None
    /\ snapshots = snaps
    /\ n = 0
    /\ m = None
    /\ file = None
    /\ ofp_dispatch = None
    /\ ofp_cost = None
    /\ contingency_lines = <<>>
    /\ idx = 1
    /\ scopf_dispatches = <<>>
    /\ scopf_costs = <<>>
    /\ scopf_unserved = <<>>
    /\ scopf_dispatch = None
    /\ bars = None
    /\ solves = <<>>

Min(S) == CHOOSE x \in S : \A y \in S : x <= y

MgSnapshots == 0..(MgHours - 1)

\* values of load_MW in the input file
LoadLevels == {400, 6000}

\* the solar_gen_MW and wind_gen_MW columns: not all zero (lines 132, 140
\* divide by the maximum)
GenProfiles == {f \in [MgSnapshots -> {0, 1, 2}] : \E h \in MgSnapshots : f[h] > 0}

\* a generator whose availability is a share num/den of p_nom, hour by hour
MgGen(p_nom, mc, carrier, num, den) ==
    [p_nom |-> p_nom, marginal_cost |-> mc, carrier |-> carrier,
     p_max_pu |-> [h \in DOMAIN num |-> [num |-> num[h], den |-> den]]]

\* p_max_pu left at its default 1.0
AlwaysOn(hours) == [h \in hours |-> 1]

\* lines 78-99
MgBaseNetwork(load) ==
    [buses      |-> {"Microgrid Central Bus"},
     p_set      |-> load,
     generators |-> [g \in {"Diesel Generator", "Grid Supply"} |->
                        IF g = "Diesel Generator"
                        THEN MgGen(3000, 100, "diesel", AlwaysOn(DOMAIN load), 1)
                        ELSE MgGen(10000, 150, "grid", AlwaysOn(DOMAIN load), 1)],
     p          |-> None,
     objective  |-> None]

\* a copy that hands back the network itself
CopyNetworkAliased(heap, src, new) == [ref |-> src, heap |-> heap]

\* Network.copy(): a new network object with the components and series of src
CopyNetwork(heap, src, new) == [ref |-> new, heap |-> (new :> heap[src]) @@ heap]

\* lines 127-141 (176-189, 197-210): the two renewable generators
AddRenewables(net, solar, wind) ==
    [net EXCEPT !.generators =
        [g \in {"Solar PV", "Wind Turbine"} |->
            IF g = "Solar PV"
            THEN MgGen(1000, 10, "solar", solar, Max({solar[h] : h \in DOMAIN solar}))
            ELSE MgGen(1500, 12, "wind", wind, Max({wind[h] : h \in DOMAIN wind}))] @@ @]

\* loads_t.p_set["Microgrid Load"] = load
SetLoad(net, load) == [net EXCEPT !.p_set = load]

\* what generator g can supply in hour h
Available(net, g, h) ==
    (net.generators[g].p_nom * net.generators[g].p_max_pu[h].num)
        \div net.generators[g].p_max_pu[h].den

\* merit order on the single bus: g supplies what the cheaper generators leave
MgDispatch(net, g, h) ==
    LET cheaper == {k \in DOMAIN net.generators :
                       net.generators[k].marginal_cost < net.generators[g].marginal_cost}
        left    == net.p_set[h] - SumSet([k \in cheaper |-> Available(net, k, h)], cheaper)
    IN IF left <= 0 THEN 0 ELSE Min({left, Available(net, g, h)})

\* network.optimize(solver_name='glpk'): dispatch and objective are assigned
MgOptimized(net) ==
    LET p == [h \in DOMAIN net.p_set |->
                [g \in DOMAIN net.generators |-> MgDispatch(net, g, h)]]
    IN [net EXCEPT !.p = Some(p),
                   !.objective =
                       Some(SumSet([h \in DOMAIN p |->
                                       SumSet([g \in DOMAIN p[h] |->
                                                  net.generators[g].marginal_cost * p[h][g]],
                                              DOMAIN p[h])],
                                   DOMAIN p))]

\* the state after line 99: the template network is built, nothing is solved
InitMicrogrid ==
    \E load \in [MgSnapshots -> LoadLevels], solar \in GenProfiles, wind \in GenProfiles :
        /\ pc = "mg_template"
        /\ exc = None
        /\ nets = (0 :> MgBaseNetwork(load))
        /\ globals = [base_network |-> 0, load_profile |-> load,
                      solar_profile |-> solar, wind_profile |-> wind]
        /\ stdout = <<>>
        /\ HarnessIdle(MgSnapshots)

\* a printed number with two decimals
Printed(label, value) == [label |-> label, nan |-> FALSE, hundredths |-> 100 * value]

\* generators_t.p[g].sum()
Energy(net, g) == SumSet([h \in DOMAIN Val(net.p) |-> Val(net.p)[h][g]], DOMAIN Val(net.p))

\* the k-th smallest value of series f, counted from 0
KthSmallest(f, k) ==
    CHOOSE v \in {f[h] : h \in DOMAIN f} :
        /\ Cardinality({h \in DOMAIN f : f[h] < v}) <= k
        /\ k < Cardinality({h \in DOMAIN f : f[h] <= v})

\* four times Series.quantile(0.75), which interpolates linearly between
\* the values at positions floor and ceil of 0.75 * (len - 1)
Quantile75x4(f) ==
    LET pos4 == 3 * (Cardinality(DOMAIN f) - 1)
        lo   == KthSmallest(f, pos4 \div 4)
        hi   == IF pos4 % 4 = 0 THEN lo ELSE KthSmallest(f, pos4 \div 4 + 1)
    IN 4 * lo + (pos4 % 4) * (hi - lo)

\* a demand response that also raises the load of an hour at the threshold
DRLoadInclusive(load, combined, up, down) ==
    [h \in DOMAIN load |->
        (load[h] * (IF 4 * combined[h] >= Quantile75x4(combined) THEN up ELSE down)) \div 10]

\* lines 166-171: initial_load * combined_gen.apply(lambda x: up if x > threshold else down),
\* the factors given in tenths
DRLoad(load, combined, up, down) ==
    [h \in DOMAIN load |->
        (load[h] * (IF 4 * combined[h] > Quantile75x4(combined) THEN up ELSE down)) \div 10]

\* name = base_network.copy()
MgCopy(name, ref, from, to) ==
    /\ pc = from
    /\ LET copied == CopyNetwork(nets, globals.base_network, ref)
       IN /\ nets' = copied.heap
          /\ globals' = (name :> copied.ref) @@ globals
    /\ pc' = to
    /\ UNCHANGED <<exc, stdout, harnessVars>>

\* name = base_network.copy(), the two renewable generators added, the load
\* replaced when a demand-response profile is given
MgBuild(name, ref, from, to, dr) ==
    /\ pc = from
    /\ LET copied == CopyNetwork(nets, globals.base_network, ref)
           added  == AddRenewables(copied.heap[copied.ref],
                                   globals.solar_profile, globals.wind_profile)
       IN /\ nets' = [copied.heap EXCEPT ![copied.ref] =
                         IF dr = "" THEN added ELSE SetLoad(added, globals[dr])]
          /\ globals' = (name :> copied.ref) @@ globals
    /\ pc' = to
    /\ UNCHANGED <<exc, stdout, harnessVars>>

\* name.optimize(solver_name='glpk') and the prints that follow
MgOptimize(name, from, to, printed) ==
    /\ pc = from
    /\ LET solved == MgOptimized(nets[globals[name]])
       IN /\ nets' = [nets EXCEPT ![globals[name]] = solved]
          /\ stdout' = stdout \o
                [k \in 1..Len(printed) |->
                    IF printed[k] = "cost"
                    THEN Printed(name \o " cost", Val(solved.objective))
                    ELSE Printed(printed[k] \o " energy (MWh)", Energy(solved, printed[k]))]
    /\ pc' = to
    /\ UNCHANGED <<exc, globals, harnessVars>>

\* line 111
MgCopyBaseline ==
    /\ MgCopy("baseline_network", 1, "mg_template", "mg_baseline_copied")

\* lines 112-117
MgOptimizeBaseline ==
    /\ MgOptimize("baseline_network", "mg_baseline_copied", "mg_baseline_solved",
                  <<"cost", "Diesel Generator", "Grid Supply">>)

\* lines 124-141
MgBuildRenewable ==
    /\ MgBuild("re_network", 2, "mg_baseline_solved", "mg_re_built", "")

\* lines 143-150
MgOptimizeRenewable ==
    /\ MgOptimize("re_network", "mg_re_built", "mg_re_solved",
                  <<"cost", "Solar PV", "Wind Turbine", "Diesel Generator", "Grid Supply">>)

\* lines 157-171
MgDemandResponse ==
    /\ pc = "mg_re_solved"
    /\ LET initial_load == nets[globals.base_network].p_set
           re           == Val(nets[globals.re_network].p)
           combined_gen == [h \in DOMAIN re |-> re[h]["Solar PV"] + re[h]["Wind Turbine"]]
       IN globals' = [initial_load |-> initial_load,
                      load_cons    |-> DRLoad(initial_load, combined_gen, 11, 9),
                      load_aggr    |-> DRLoad(initial_load, combined_gen, 12, 8)] @@ globals
    /\ pc' = "mg_dr_profiles"
    /\ UNCHANGED <<exc, nets, stdout, harnessVars>>

\* lines 174-191
MgBuildConservative ==
    /\ MgBuild("conservative_network", 3, "mg_dr_profiles", "mg_cons_built", "load_cons")

\* line 193
MgOptimizeConservative ==
    /\ MgOptimize("conservative_network", "mg_cons_built", "mg_cons_solved", <<>>)

\* lines 196-211
MgBuildAggressive ==
    /\ MgBuild("aggressive_network", 4, "mg_cons_solved", "mg_aggr_built", "load_aggr")

\* lines 213-217
MgOptimizeAggressive ==
    /\ MgOptimize("aggressive_network", "mg_aggr_built", "mg_aggr_solved", <<"cost">>)

NextMicrogrid ==
    \/ MgCopyBaseline
    \/ MgOptimizeBaseline
    \/ MgBuildRenewable
    \/ MgOptimizeRenewable
    \/ MgDemandResponse
    \/ MgBuildConservative
    \/ MgOptimizeConservative
    \/ MgBuildAggressive
    \/ MgOptimizeAggressive

SpecMicrogrid == InitMicrogrid /\ [][NextMicrogrid]_vars

\* the networks of the four scenarios that exist so far
ScenarioNetworks ==
    {"baseline_network", "re_network", "conservative_network", "aggressive_network"}
        \cap DOMAIN globals

\* the scenario network that the last statement has built, by position
JustBuilt ==
    [mg_baseline_copied |-> "baseline_network", mg_re_built |-> "re_network",
     mg_cons_built |-> "conservative_network", mg_aggr_built |-> "aggressive_network"]

\* C17: every scenario network of the microgrid study starts from a copy of
\* the unsolved base network; base_network is never optimized and never
\* modified (no generator added, load not replaced) at any point.
C17_BaseNetworkIsTemplate ==
    (pc \notin {"start", "loop", "built"} /\ "base_network" \in DOMAIN globals) =>
        LET base == MgBaseNetwork(globals.load_profile)
        IN /\ nets[globals.base_network] = base
           /\ \A name \in ScenarioNetworks : globals[name] # globals.base_network
           /\ pc \in DOMAIN JustBuilt =>
                 LET net == nets[globals[JustBuilt[pc]]]
                 IN /\ net.p = None /\ net.objective = None
                    /\ net.buses = base.buses
                    /\ \A g \in DOMAIN base.generators :
                          /\ g \in DOMAIN net.generators
                          /\ net.generators[g] = base.generators[g]

\* C17 witness: all four scenario networks are solved, the demand-response
\* loads differ from the base load.
C17_Witness ==
    /\ pc = "mg_aggr_solved"
    /\ \A name \in ScenarioNetworks : nets[globals[name]].objective # None
    /\ Cardinality(ScenarioNetworks) = 4
    /\ nets[globals.conservative_network].p_set # nets[globals.base_network].p_set

-----------------------------------------------------------------------------
(* The stress tests of Chapter 8, Case Study 1                             *)
(* (src/Chapter 8/Chapter_8_CS_1.py).  Series and networks are objects of  *)
(* the heap nets, the script's variables in globals refer to them.  An     *)
(* availability is kept in thousandths, a power in thousandths of a MW.    *)
(* The values of the three shared profiles (a sine, a seeded random        *)
(* sample) are inputs taken from small families of series.                 *)

StSnapshots == 0..(StressHours - 1)

\* a slice assignment that takes the end of the slice in: series[a:b+1] = value
SetSliceInclusive(series, a, b, value) ==
    [h \in DOMAIN series |-> IF a <= h /\ h <= b THEN value ELSE series[h]]

\* series[a:b] = value
SetSlice(series, a, b, value) ==
    [h \in DOMAIN series |-> IF a <= h /\ h < b THEN value ELSE series[h]]

\* series[a:b] *= num/den
ScaleSlice(series, a, b, num, den) ==
    [h \in DOMAIN series |-> IF a <= h /\ h < b THEN (series[h] * num) \div den ELSE series[h]]

\* pd.Series(value, index=snapshots)
Constant(value) == [h \in StSnapshots |-> value]

\* a series that alternates between two values every half day
HalfDays(first, second) ==
    [h \in StSnapshots |-> IF (h \div 12) % 2 = 0 THEN first ELSE second]

\* line 70, in MW
LoadProfiles == {HalfDays(hi, lo) : hi \in {300, 360}, lo \in {240, 300}}

\* lines 74-75, in thousandths: a sample in [0, 1] with the lull of hours 60-69
WindProfiles ==
    {SetSlice([h \in StSnapshots |-> IF h % 2 = 0 THEN a ELSE b], 60, 70, 200) :
        a \in {400, 600, 1000}, b \in {400, 600, 1000}}

\* line 76, in thousandths
SolarProfiles == {HalfDays(0, peak) : peak \in {500, 1000}}

\* the coordinates of lines 91-99 name the buses
StBuses ==
    {"NorthWind", "NorthSolar", "NorthStorage", "NorthHub", "SouthHub", "SouthLoad",
     "SouthBackupGen"}

\* lines 102-108
InternalLinks ==
    {<<"NorthWind", "NorthHub">>, <<"NorthSolar", "NorthHub">>, <<"NorthStorage", "NorthHub">>,
     <<"SouthBackupGen", "SouthHub">>, <<"SouthHub", "SouthLoad">>}

StGen(bus, p_nom, extendable, p_max_pu, mc) ==
    [bus |-> bus, p_nom |-> p_nom, p_nom_extendable |-> extendable,
     p_max_pu |-> p_max_pu, marginal_cost |-> mc]

\* a link taken out of service by setting its capacity to zero
StLinkDerated(bus0, bus1, p_nom, p_max_pu) ==
    [bus0 |-> bus0, bus1 |-> bus1, p_nom_extendable |-> FALSE, p_max_pu |-> p_max_pu,
     p_nom |-> IF \E h \in DOMAIN p_max_pu : p_max_pu[h] = 0 THEN 0 ELSE p_nom]

\* network.add("Link", ..., p_nom=..., p_max_pu=...): p_nom_extendable stays False
StLink(bus0, bus1, p_nom, p_max_pu) ==
    [bus0 |-> bus0, bus1 |-> bus1, p_nom_extendable |-> FALSE, p_max_pu |-> p_max_pu,
     p_nom |-> p_nom]

\* f"{a}_to_{b}"
LinkName(a, b) == a \o "_to_" \o b

\* one scenario network, lines 120-166 (193-239, 263-308, 335-381): the four
\* blocks differ in the series they pass
StressNetwork(load, wind, solar, gas, corridor_b) ==
    [buses      |-> StBuses,
     loads      |-> [l \in {"SouthDemand"} |-> [bus |-> "SouthLoad", p_set |-> load]],
     generators |->
        [g \in {"WindNorth", "SolarNorth", "GasSouth", "Unserved"} |->
            CASE g = "WindNorth"  -> StGen("NorthWind", 670, FALSE, wind, 0)
              [] g = "SolarNorth" -> StGen("NorthSolar", 205, FALSE, solar, 0)
              [] g = "GasSouth"   -> StGen("SouthBackupGen", 220, FALSE, gas, 70)
              [] g = "Unserved"   -> StGen("SouthLoad", 0, TRUE, Constant(1000), 1000)],
     storage_units |->
        [u \in {"Battery_North"} |->
            [bus |-> "NorthStorage", p_nom |-> 0, p_nom_extendable |-> FALSE, max_hours |-> 4]],
     links      |->
        [l \in {LinkName(ab[1], ab[2]) : ab \in InternalLinks} |->
            LET ab == CHOOSE x \in InternalLinks : l = LinkName(x[1], x[2])
            IN StLink(ab[1], ab[2], 1000, Constant(1000))]
        @@ [l \in {"Corridor_A", "Corridor_B"} |->
                IF l = "Corridor_A"
                THEN StLink("NorthHub", "SouthHub", 0, Constant(1000))
                ELSE StLink("NorthHub", "SouthHub", 360, corridor_b)],
     co2_limit  |-> 10000,
     p          |-> None,
     objective  |-> None]

\* what generator g can supply in hour h, in thousandths of a MW
StAvailable(net, g, h) == net.generators[g].p_nom * net.generators[g].p_max_pu[h]

\* what the corridors from NorthHub to SouthHub can carry in hour h
CorridorCapacity(net, h) ==
    LET corridors == {l \in DOMAIN net.links :
                         net.links[l].bus0 = "NorthHub" /\ net.links[l].bus1 = "SouthHub"}
    IN SumSet([l \in corridors |-> net.links[l].p_nom * net.links[l].p_max_pu[h]], corridors)

\* the least-cost dispatch of hour h: the free northern generation as far as
\* the corridors carry it, then gas, then load shedding; the two northern
\* generators cost the same, first says which one the solver runs first.
\* (The battery has no capacity, the internal links of 1000 MW and the CO2
\* cap of 10000 never bind: 0.2 * 220 * 168 < 10000.)
StDispatch(net, h, first) ==
    LET load     == 1000 * net.loads["SouthDemand"].p_set[h]
        second   == CHOOSE g \in {"WindNorth", "SolarNorth"} : g # first
        transfer == Min({StAvailable(net, "WindNorth", h) + StAvailable(net, "SolarNorth", h),
                         CorridorCapacity(net, h), load})
        pfirst   == Min({StAvailable(net, first, h), transfer})
        gas      == Min({StAvailable(net, "GasSouth", h), load - transfer})
    IN (first :> pfirst) @@ (second :> (transfer - pfirst))
       @@ ("GasSouth" :> gas) @@ ("Unserved" :> (load - transfer - gas))

RECURSIVE SumRange(_, _, _)
\* sum of f[lo], ..., f[hi], by halves
SumRange(f, lo, hi) ==
    IF lo > hi THEN 0
    ELSE IF lo = hi THEN f[lo]
    ELSE LET mid == (lo + hi) \div 2
         IN SumRange(f, lo, mid) + SumRange(f, mid + 1, hi)

\* network.optimize(solver_name="glpk"); the objective in whole currency units
StOptimized(net, first) ==
    LET p == [h \in StSnapshots |-> StDispatch(net, h, first)]
    IN [net EXCEPT !.p = Some(p),
                   !.objective =
                       Some(SumRange([h \in StSnapshots |->
                                         SumSet([g \in DOMAIN p[h] |->
                                                    (net.generators[g].marginal_cost * p[h][g])
                                                        \div 1000],
                                                DOMAIN p[h])],
                                     0, StressHours - 1))]

\* an assignment that binds a second name to the series src itself
CopySeriesAliased(heap, src, new) == [ref |-> src, heap |-> heap]

\* Series.copy(): a new series object with the values of src
CopySeries(heap, src, new) == [ref |-> new, heap |-> (new :> heap[src]) @@ heap]

\* the state after line 76: the three shared profiles exist
InitStress ==
    \E load \in LoadProfiles, wind \in WindProfiles, solar \in SolarProfiles :
        /\ pc = "st_profiles"
        /\ exc = None
        /\ nets = (1 :> load) @@ (2 :> wind) @@ (3 :> solar)
        /\ globals = [load_profile |-> 1, wind_profile |-> 2, solar_profile |-> 3]
        /\ stdout = <<>>
        /\ HarnessIdle(StSnapshots)

\* lines 79-80
StStorm ==
    /\ pc = "st_profiles"
    /\ LET copied == CopySeries(nets, globals.wind_profile, 4)
       IN /\ nets' = [copied.heap EXCEPT ![copied.ref] = ScaleSlice(@, 60, 100, 3, 10)]
          /\ globals' = ("wind_storm" :> copied.ref) @@ globals
    /\ pc' = "st_storm"
    /\ UNCHANGED <<exc, stdout, harnessVars>>

\* lines 83-88
StOutages ==
    /\ pc = "st_storm"
    /\ nets' = (5 :> SetSlice(Constant(1000), 40, 60, 0))
               @@ (6 :> SetSlice(Constant(1000), 72, 96, 0)) @@ nets
    /\ globals' = [gas_availability |-> 5, corridor_b_outage |-> 6] @@ globals
    /\ pc' = "st_inputs"
    /\ UNCHANGED <<exc, stdout, harnessVars>>

\* a scenario block up to its optimize: name = pypsa.Network() and the adds
StBuild(name, ref, from, to, net) ==
    /\ pc = from
    /\ nets' = (ref :> net) @@ nets
    /\ globals' = (name :> ref) @@ globals
    /\ pc' = to
    /\ UNCHANGED <<exc, stdout, harnessVars>>

\* name.optimize(solver_name="glpk"); the plots that follow keep no state
StOptimize(name, from, to) ==
    /\ pc = from
    /\ \E first \in {"WindNorth", "SolarNorth"} :
          nets' = [nets EXCEPT ![globals[name]] = StOptimized(@, first)]
    /\ pc' = to
    /\ UNCHANGED <<exc, globals, stdout, harnessVars>>

\* lines 120-166
StBuildA ==
    /\ StBuild("network_a", 7, "st_inputs", "st_a_built",
               StressNetwork(nets[globals.load_profile], nets[globals.wind_profile],
                             nets[globals.solar_profile], nets[globals.gas_availability],
                             nets[globals.corridor_b_outage]))

\* lines 169-185
StOptimizeA ==
    /\ StOptimize("network_a", "st_a_built", "st_a_solved")

\* lines 193-239
StBuildB ==
    /\ StBuild("network_b", 8, "st_a_solved", "st_b_built",
               StressNetwork(nets[globals.load_profile], nets[globals.wind_storm],
                             nets[globals.solar_profile], Constant(1000), Constant(1000)))

\* lines 242-255
StOptimizeB ==
    /\ StOptimize("network_b", "st_b_built", "st_b_solved")

\* lines 263-308
StBuildC ==
    /\ StBuild("network_c", 9, "st_b_solved", "st_c_built",
               StressNetwork(nets[globals.load_profile], nets[globals.wind_profile],
                             nets[globals.solar_profile], nets[globals.gas_availability],
                             Constant(1000)))

\* lines 311-327
StOptimizeC ==
    /\ StOptimize("network_c", "st_c_built", "st_c_solved")

\* lines 335-381
StBuildD ==
    /\ StBuild("network_d", 10, "st_c_solved", "st_d_built",
               StressNetwork(nets[globals.load_profile], nets[globals.wind_profile],
                             nets[globals.solar_profile], Constant(1000), Constant(1000)))

\* lines 384-400
StOptimizeD ==
    /\ StOptimize("network_d", "st_d_built", "st_d_solved")

NextStress ==
    \/ StStorm
    \/ StOutages
    \/ StBuildA
    \/ StOptimizeA
    \/ StBuildB
    \/ StOptimizeB
    \/ StBuildC
    \/ StOptimizeC
    \/ StBuildD
    \/ StOptimizeD

SpecStress == InitStress /\ [][NextStress]_vars

\* the stress-test networks built so far
StressNetworks ==
    {nets[globals[name]] :
        name \in {"network_a", "network_b", "network_c", "network_d"} \cap DOMAIN globals}

\* a network without its time series and without its solution: components,
\* where they are connected, capacities and costs
Static(net) ==
    [buses         |-> net.buses,
     loads         |-> [l \in DOMAIN net.loads |-> net.loads[l].bus],
     generators    |-> [g \in DOMAIN net.generators |->
                           [bus |-> net.generators[g].bus,
                            p_nom |-> net.generators[g].p_nom,
                            p_nom_extendable |-> net.generators[g].p_nom_extendable,
                            marginal_cost |-> net.generators[g].marginal_cost]],
     storage_units |-> net.storage_units,
     links         |-> [l \in DOMAIN net.links |->
                           [bus0 |-> net.links[l].bus0, bus1 |-> net.links[l].bus1,
                            p_nom |-> net.links[l].p_nom,
                            p_nom_extendable |-> net.links[l].p_nom_extendable]],
     co2_limit     |-> net.co2_limit]

\* the components of net with a capacity the optimiser may extend
Extendable(net) ==
    {g \in DOMAIN net.generators : net.generators[g].p_nom_extendable}
    \cup {l \in DOMAIN net.links : net.links[l].p_nom_extendable}
    \cup {u \in DOMAIN net.storage_units : net.storage_units[u].p_nom_extendable}

\* C18: the demand given to network_d is elevated over hours 110 to 140 and
\* its solar availability is reduced, relative to the load and solar
\* profiles of the networks of Scenarios A to C.
C18_HeatwaveInputs ==
    "network_d" \in DOMAIN globals =>
        LET d == nets[globals.network_d]
        IN \A name \in {"network_a", "network_b", "network_c"} :
              LET x == nets[globals[name]]
              IN /\ \A h \in 110..140 :
                       d.loads["SouthDemand"].p_set[h] > x.loads["SouthDemand"].p_set[h]
                 /\ \A h \in StSnapshots :
                       d.generators["SolarNorth"].p_max_pu[h]
                           <= x.generators["SolarNorth"].p_max_pu[h]
                 /\ \E h \in StSnapshots :
                       d.generators["SolarNorth"].p_max_pu[h]
                           < x.generators["SolarNorth"].p_max_pu[h]

\* the generators that stand for demand not met (carrier "load_shed"), a
\* slack of the optimisation and no generation capacity of the system
LoadShedding == {"Unserved"}

-----------------------------------------------------------------------------
(* The contingency loop once more: N-1 discipline, counts, the guard and   *)
(* the result lists (src/Chapter 8/Chapter_8_CS_2.py, lines 96-112).       *)

\* the candidate of the scenario network m refers to: the one of the
\* running iteration, or of the iteration that has just ended
CandidateOfM ==
    IF pc = "built" THEN contingency_lines[idx] ELSE contingency_lines[idx - 1]

\* the lines of net that are out of service
OutOfService(net) == {l \in DOMAIN net.lines : net.lines[l].s_nom = 0}

\* C21: in the network built and solved for a candidate, exactly one line,
\* the candidate, has capacity 0 and every other line has its base capacity:
\* outages do not accumulate from one iteration to the next.
C21_SingleOutagePerScenario ==
    (pc \in {"built", "loop"} /\ m # None) =>
        LET net == nets[Val(m)]
        IN /\ DOMAIN net.lines = DOMAIN BaseLines
           /\ OutOfService(net) = {CandidateOfM}
           /\ \A l \in DOMAIN net.lines \ {CandidateOfM} : net.lines[l] = BaseLines[l]
           /\ OutOfService(nets[n]) = {}

\* C21 witness: the third scenario is built, the lines of the first two
\* candidates are back at their base capacity in it.
C21_Witness ==
    /\ pc = "built"
    /\ idx = 3
    /\ nets[Val(m)].lines[contingency_lines[3]].s_nom = 0
    /\ nets[Val(m)].lines[contingency_lines[1]].s_nom = 100
    /\ nets[Val(m)].lines[contingency_lines[2]].s_nom = 100

\* the candidates the script has reported as infeasible (line 106)
ReportedInfeasible ==
    {i \in DOMAIN stdout : \E k \in DOMAIN contingency_lines :
                              stdout[i] = InfeasibleLine(contingency_lines[k])}

\* the optimiser raised: the one fatal error of the loop
Fatal == exc = Some("SolverError")

\* the script has left the loop
LoopLeft == pc \in {"aggregated", "plotted", "done"} \/ exc = Some("ValueError")

UnservedGensAt(net, bus) ==
    {g \in DOMAIN net.generators :
        net.generators[g].carrier = "unserved" /\ net.generators[g].bus = bus}

\* the generator columns of a dispatch frame
Columns(frame) == UNION {DOMAIN frame[s] \ {"type"} : s \in DOMAIN frame}

\* C23: the guard of lines 100-102 adds nothing, because the base network
\* has an unserved generator at every bus: every scenario network has the
\* generators of the base network, exactly one unserved generator per bus,
\* and every scenario dispatch has the generator columns of the base dispatch.
C23_GuardAddsNothing ==
    /\ (pc \in {"built", "loop"} /\ m # None) =>
          /\ DOMAIN nets[Val(m)].generators = DOMAIN nets[n].generators
          /\ \A b \in nets[Val(m)].buses : Cardinality(UnservedGensAt(nets[Val(m)], b)) = 1
    /\ ofp_dispatch # None =>
          \A i \in DOMAIN scopf_dispatches :
              Columns(scopf_dispatches[i]) = Columns(Val(ofp_dispatch))

\* the position, among the scenario solves, of the i-th feasible one
IthFeasible(i) ==
    CHOOSE k \in FeasibleAt : Cardinality({j \in FeasibleAt : j <= k}) = i

\* the three result lists have one length
SameLength ==
    /\ Len(scopf_dispatches) = Len(scopf_costs)
    /\ Len(scopf_costs) = Len(scopf_unserved)

\* C24: after every loop iteration the three result lists have the same
\* length, the number of feasible candidates processed so far, and their
\* i-th entries are the dispatch, the cost and the unserved energy of one
\* scenario, the i-th feasible one.
C24_ResultListsAligned ==
    /\ SameLength
    /\ pc = "loop" =>
          /\ Len(scopf_costs) = Cardinality(FeasibleAt)
          /\ \A i \in DOMAIN scopf_costs :
                LET answer == ScenarioSolves[IthFeasible(i)]
                IN /\ scopf_dispatches[i] = Val(answer.p)
                   /\ scopf_costs[i] = Val(answer.objective)
                   /\ scopf_unserved[i] = UnservedSum(Val(answer.p))

-----------------------------------------------------------------------------
(* The stress tests once more: the storm and the corridor outage           *)
(* (src/Chapter 8/Chapter_8_CS_1.py).                                      *)

\* the wind availability given to the network the script calls name
WindOf(name) == nets[globals[name]].generators["WindNorth"].p_max_pu

\* C25: wind_storm is wind_profile scaled by 0.3 on the hours 60 to 99 and
\* equal to it at every other hour, it stays within [0, 1] (0 to 1000
\* thousandths), building it and everything after leaves wind_profile as it
\* was, Scenario B gets wind_storm and Scenarios A, C and D get wind_profile.
C25_StormScalesWindOnWindowOnly ==
    /\ []("wind_storm" \in DOMAIN globals =>
            LET wind  == nets[globals.wind_profile]
                storm == nets[globals.wind_storm]
            IN /\ globals.wind_storm # globals.wind_profile
               /\ DOMAIN storm = StSnapshots
               /\ \A h \in 60..99 : 10 * storm[h] = 3 * wind[h]
               /\ \A h \in StSnapshots \ (60..99) : storm[h] = wind[h]
               /\ \A h \in StSnapshots : 0 <= storm[h] /\ storm[h] <= 1000
               /\ "network_b" \in DOMAIN globals => WindOf("network_b") = storm
               /\ \A name \in {"network_a", "network_c", "network_d"} \cap DOMAIN globals :
                     WindOf(name) = wind)
    /\ [][/\ globals'.wind_profile = globals.wind_profile
          /\ nets'[globals.wind_profile] = nets[globals.wind_profile]]_vars

\* C25 witness: all four scenarios are built; the storm has lowered a
\* positive availability inside the window and left its neighbours alone.
C25_Witness ==
    /\ pc = "st_d_solved"
    /\ nets[globals.wind_profile][60] > 0
    /\ nets[globals.wind_storm][99] < nets[globals.wind_profile][99]
    /\ nets[globals.wind_storm][59] = nets[globals.wind_profile][59]
    /\ nets[globals.wind_storm][100] = nets[globals.wind_profile][100]
    /\ nets[globals.wind_profile][100] > 0
    /\ WindOf("network_b") # WindOf("network_a")

\* the hours of the corridor outage, corridor_b_outage[72:96]
OutageWindow == 72..95

\* the demand at SouthLoad in hour h, in thousandths of a MW
SouthDemand(net, h) == 1000 * net.loads["SouthDemand"].p_set[h]

\* the constraints of the optimisation problem on the dispatch p of hour h:
\* a fixed generator within its availability, load shedding not negative,
\* the northern generation (no load and no storage capacity in the north,
\* links carry power from bus0 to bus1 only) within what the corridors
\* carry, and the balance at SouthLoad
StFeasible(net, h, p) ==
    /\ \A g \in DOMAIN net.generators :
          /\ 0 <= p[g]
          /\ ~net.generators[g].p_nom_extendable => p[g] <= StAvailable(net, g, h)
    /\ p["WindNorth"] + p["SolarNorth"] <= CorridorCapacity(net, h)
    /\ p["WindNorth"] + p["SolarNorth"] + p["GasSouth"] + p["Unserved"] = SouthDemand(net, h)

\* dispatch levels to try in hour h: nothing, one MW, what each generator
\* has available, the demand, and the demand the gas unit cannot cover
TrialLevels(net, h) ==
    {v \in {0, 1000, SouthDemand(net, h),
            SouthDemand(net, h) - StAvailable(net, "GasSouth", h)}
           \cup {StAvailable(net, g, h) : g \in DOMAIN net.generators \ LoadShedding} :
        v >= 0}

\* the dispatches of hour h tried
TrialDispatches(net, h) == [DOMAIN net.generators -> TrialLevels(net, h)]

\* what the claim says of a dispatch p of hour h
ServedBySouthOnly(net, h, p) ==
    /\ p["WindNorth"] = 0
    /\ p["SolarNorth"] = 0
    /\ p["GasSouth"] + p["Unserved"] = SouthDemand(net, h)
    /\ p["Unserved"] >= SouthDemand(net, h) - StAvailable(net, "GasSouth", h)

\* C26: in Scenario A the availability of Corridor_B is 0 on exactly the 24
\* hours 72 to 95 and 1 on every other hour, and Corridor_A has no capacity:
\* in every hour of the window nothing flows from NorthHub to SouthHub, so
\* in every feasible dispatch, the optimiser's included, the demand at
\* SouthLoad equals GasSouth plus Unserved, and Unserved is at least the
\* demand minus the gas capacity available.
C26_CorridorOutageIsolatesSouth ==
    "network_a" \in DOMAIN globals =>
        LET a == nets[globals.network_a]
        IN /\ {h \in StSnapshots : a.links["Corridor_B"].p_max_pu[h] = 0} = OutageWindow
           /\ Cardinality(OutageWindow) = 24
           /\ \A h \in StSnapshots \ OutageWindow : a.links["Corridor_B"].p_max_pu[h] = 1000
           /\ a.links["Corridor_A"].p_nom = 0
           /\ \A h \in OutageWindow : CorridorCapacity(a, h) = 0
           /\ pc = "st_a_built" =>
                 \A h \in OutageWindow : \A p \in TrialDispatches(a, h) :
                     StFeasible(a, h, p) => ServedBySouthOnly(a, h, p)
           /\ a.p # None =>
                 \A h \in OutageWindow :
                     /\ StFeasible(a, h, Val(a.p)[h])
                     /\ ServedBySouthOnly(a, h, Val(a.p)[h])

\* C26 witness: Scenario A is solved; in an hour of the window wind is
\* available but not dispatched, gas runs and load is shed.
C26_Witness ==
    /\ pc = "st_a_solved"
    /\ LET a == nets[globals.network_a]
       IN /\ StAvailable(a, "WindNorth", 80) > 0
          /\ Val(a.p)[80]["WindNorth"] = 0
          /\ Val(a.p)[80]["GasSouth"] > 0
          /\ Val(a.p)[80]["Unserved"] > 0
          /\ Val(a.p)[71]["WindNorth"] > 0
          /\ Val(a.p)[96]["WindNorth"] + Val(a.p)[96]["SolarNorth"] > 0

-----------------------------------------------------------------------------
(* The microgrid study once more: demand response and emissions            *)
(* (src/Chapter 6/Chapter_6_CS_1.py).                                      *)

\* solar plus wind dispatch of the solved renewable scenario, hour by hour
CombinedRenewable ==
    LET re == Val(nets[globals.re_network].p)
    IN [h \in DOMAIN re |-> re[h]["Solar PV"] + re[h]["Wind Turbine"]]

\* the hours whose combined renewable dispatch is strictly above the
\* 75th percentile of the series
HighHours ==
    {h \in DOMAIN CombinedRenewable :
        4 * CombinedRenewable[h] > Quantile75x4(CombinedRenewable)}

\* load is base scaled by up tenths in the hours of high and down tenths in the others
ScaledBy(load, base, high, up, down) ==
    /\ DOMAIN load = DOMAIN base
    /\ \A h \in DOMAIN base :
          10 * load[h] = base[h] * (IF h \in high THEN up ELSE down)

\* C27: in every hour the conservative demand-response load is the base
\* load times 1.1 when the renewable scenario's solar plus wind dispatch of
\* that hour is strictly above its 75th percentile and times 0.9 otherwise,
\* the aggressive one uses 1.2 and 0.8 on the same hours; both exist only
\* once the renewable scenario is solved, are the loads of their networks,
\* and base_network keeps its load.
C27_DemandResponseProfiles ==
    "load_cons" \in DOMAIN globals =>
        LET base == globals.load_profile
        IN /\ "load_aggr" \in DOMAIN globals
           /\ nets[globals.re_network].p # None
           /\ ScaledBy(globals.load_cons, base, HighHours, 11, 9)
           /\ ScaledBy(globals.load_aggr, base, HighHours, 12, 8)
           /\ nets[globals.base_network].p_set = base
           /\ "conservative_network" \in DOMAIN globals =>
                 nets[globals.conservative_network].p_set = globals.load_cons
           /\ "aggressive_network" \in DOMAIN globals =>
                 nets[globals.aggressive_network].p_set = globals.load_aggr

\* C27 witness: both demand-response scenarios are solved; one hour is
\* above the threshold and one is not, and an hour exactly at the threshold
\* or below it has its load lowered.
C27_Witness ==
    /\ pc = "mg_aggr_solved"
    /\ HighHours # {}
    /\ HighHours # DOMAIN CombinedRenewable
    /\ \E h \in HighHours : globals.load_aggr[h] > globals.load_cons[h]
    /\ \E h \in DOMAIN CombinedRenewable \ HighHours :
          /\ CombinedRenewable[h] > 0
          /\ globals.load_aggr[h] < globals.load_cons[h]

-----------------------------------------------------------------------------
(* Emissions of a solved network: calculate_total_emissions of Chapter 5   *)
(* (src/Chapter 5/Chapter_5_CS_1.py, Chapter_5_CS_2.py) and                *)
(* calculate_emissions of Chapter 6, as functions of a network.  The       *)
(* generators frame has the column emission_factor or not (ef_column); in  *)
(* a row that was never assigned the column holds NaN (None).  Factors and *)
(* emissions are in tenths.                                                *)

EmSnapshots == 0..(EmHours - 1)

\* dispatch of a generator in an hour, MW
EmLevels == {0, 3}

\* generators of the Chapter 5 studies, with their carriers; "Wind Farm" is
\* a generator of Case Study 2 that the dictionary of Case Study 1 lacks
Ch5Generators ==
    [g \in {"Coal Plant", "Gas Plant", "Onshore Wind", "Wind Farm"} |->
        CASE g = "Coal Plant" -> "coal"
          [] g = "Gas Plant"  -> "gas"
          [] OTHER            -> "wind"]

\* generators of the microgrid study, with their carriers
Ch6Generators ==
    [g \in {"Diesel Generator", "Grid Supply", "Solar PV", "Wind Turbine"} |->
        CASE g = "Diesel Generator" -> "diesel"
          [] g = "Grid Supply"      -> "grid"
          [] g = "Solar PV"         -> "solar"
          [] OTHER                  -> "wind"]

\* Chapter_5_CS_1.py lines 137-142, tons CO2 per MWh in tenths
emission_factors ==
    [g \in {"Coal Plant", "Gas Plant", "Solar PV", "Onshore Wind"} |->
        CASE g = "Coal Plant" -> 9
          [] g = "Gas Plant"  -> 4
          [] OTHER            -> 0]

\* a solved network with the generators names of the study carriers
EmNetwork(carriers, names, p) ==
    [generators |-> [g \in names |-> [carrier |-> carriers[g], emission_factor |-> None]],
     ef_column  |-> FALSE,
     p          |-> Some(p)]

\* network.generators.loc[gen, "emission_factor"] = ef for the generators of
\* the dictionary that the network has: the first assignment creates the
\* column, the rows not assigned hold NaN
assign_emissions(net, efactors) ==
    LET hit == DOMAIN efactors \cap DOMAIN net.generators
    IN [net EXCEPT
          !.ef_column  = @ \/ hit # {},
          !.generators = [g \in DOMAIN @ |->
                             IF g \in hit
                             THEN [@[g] EXCEPT !.emission_factor = Some(efactors[g])]
                             ELSE @[g]]]

\* gen_data.get("emission_factor", 0): the default only when the row has no
\* such column; NaN (None) when the column exists and the row was not assigned
GetEmissionFactor(net, g) ==
    IF net.ef_column THEN net.generators[g].emission_factor ELSE Some(0)

\* generators_t.p[g].sum()
Generation(net, g) ==
    SumSet([h \in DOMAIN Val(net.p) |-> Val(net.p)[h][g]], DOMAIN Val(net.p))

\* a float: nan, or a number of tenths
Number(tenths) == [nan |-> FALSE, tenths |-> tenths]
NaN == [nan |-> TRUE, tenths |-> 0]

\* calculate_total_emissions: total += sum(generation * ef); a NaN factor
\* makes the product, the sum and the total NaN
calculate_total_emissions(net) ==
    LET gens == DOMAIN net.generators
    IN IF \E g \in gens : GetEmissionFactor(net, g) = None
       THEN NaN
       ELSE Number(SumSet([g \in gens |-> Generation(net, g) * Val(GetEmissionFactor(net, g))],
                          gens))

\* Chapter_6_CS_1.py lines 303-310
calculate_emissions(net) ==
    LET gens == DOMAIN net.generators
    IN Number(SumSet([g \in gens |->
                         CASE net.generators[g].carrier = "diesel" -> Generation(net, g) * 7
                           [] net.generators[g].carrier = "grid"   -> Generation(net, g) * 5
                           [] OTHER                                -> 0],
                     gens))

\* a solved network of one of the studies is at hand
InitEmissions ==
    \E study \in {"chapter5", "chapter6"} :
    \E names \in (SUBSET DOMAIN (IF study = "chapter5" THEN Ch5Generators ELSE Ch6Generators)) \ {{}} :
    \E p \in [EmSnapshots -> [names -> EmLevels]] :
        /\ Cardinality(names) <= 3
        /\ pc = "em_solved"
        /\ exc = None
        /\ nets = (1 :> EmNetwork(IF study = "chapter5" THEN Ch5Generators ELSE Ch6Generators,
                                  names, p))
        /\ globals = [network |-> 1, study |-> study]
        /\ stdout = <<>>
        /\ HarnessIdle(EmSnapshots)

\* Chapter_5_CS_1.py lines 143-147 (Chapter_5_CS_2.py lines 255-261)
EmAssign ==
    /\ pc = "em_solved"
    /\ globals.study = "chapter5"
    /\ nets' = [nets EXCEPT ![globals.network] = assign_emissions(@, emission_factors)]
    /\ pc' = "em_assigned"
    /\ UNCHANGED <<exc, globals, stdout, harnessVars>>

\* Chapter_5_CS_1.py line 158: old_emissions = calculate_total_emissions(network_old)
EmCalculateTotal ==
    /\ pc = "em_assigned"
    /\ globals' = [emissions |-> calculate_total_emissions(nets[globals.network])] @@ globals
    /\ pc' = "em_done"
    /\ UNCHANGED <<exc, nets, stdout, harnessVars>>

\* Chapter_6_CS_1.py line 313: calculate_emissions(baseline_network)
MgCalculateEmissions ==
    /\ pc = "em_solved"
    /\ globals.study = "chapter6"
    /\ globals' = [emissions |-> calculate_emissions(nets[globals.network])] @@ globals
    /\ pc' = "em_done"
    /\ UNCHANGED <<exc, nets, stdout, harnessVars>>

NextEmissions ==
    \/ EmAssign
    \/ EmCalculateTotal
    \/ MgCalculateEmissions

SpecEmissions == InitEmissions /\ [][NextEmissions]_vars

\* the emission factor assigned to generator g of the Chapter 5 studies,
\* zero for a generator that has none
AssignedFactor(g) ==
    IF g \in DOMAIN emission_factors THEN emission_factors[g] ELSE 0

\* the microgrid's factor of a carrier: 0.7 diesel, 0.5 grid, nothing else
CarrierFactor(carrier) ==
    IF carrier = "diesel" THEN 7 ELSE IF carrier = "grid" THEN 5 ELSE 0

\* sum over generators and hours of dispatch times factor
DispatchTimesFactor(net, factor) ==
    SumSet([g \in DOMAIN net.generators |->
               SumSet([h \in DOMAIN Val(net.p) |-> Val(net.p)[h][g] * factor[g]],
                      DOMAIN Val(net.p))],
           DOMAIN net.generators)

-----------------------------------------------------------------------------
(* run_pypsa_model of Chapter 9 (src/Chapter 9/pypsa_model.py), called     *)
(* repeatedly by its user.  Dispatch is in MW, a line flow in ninths of a  *)
(* MW (the reactances 1.5, 1.0, 2.0 give flows in ninths).                 *)

\* lines 13-17
Cities == {"Copenhagen", "Aarhus", "Aalborg"}

\* the generator at each bus, lines 24-45
GeneratorAt ==
    [b \in Cities |->
        CASE b = "Copenhagen" -> "wind_Copenhagen"
          [] b = "Aarhus"     -> "solar_Aarhus"
          [] OTHER            -> "gas_Aalborg"]

GeneratorNames == {GeneratorAt[b] : b \in Cities}

\* f"{bus1}_{bus2}", lines 59-66
CityLines == {"Copenhagen_Aarhus", "Aarhus_Aalborg", "Aalborg_Copenhagen"}

\* values of the nine arguments tried
ModelArgs ==
    [demand_Copenhagen : {50, 150}, demand_Aarhus : {50}, demand_Aalborg : {50, 250},
     capacity_wind : {100}, cost_wind : {20, 25},
     capacity_solar : {50, 100}, cost_solar : {25},
     capacity_gas : {150}, cost_gas : {50}]

\* network = pypsa.Network(): an empty network, whatever was built before
NewNetwork(previous) ==
    [buses |-> {}, generators |-> <<>>, loads |-> <<>>, lines |-> <<>>, p |-> None, p0 |-> None]

\* network.add(...): a component whose name exists already is not replaced
AddComponents(old, new) == old @@ new

\* lines 9-70: the network of a call
ModelNetwork(args, previous) ==
    LET net == NewNetwork(previous)
    IN [net EXCEPT
          !.buses = @ \cup Cities,
          !.generators = AddComponents(@,
              [g \in GeneratorNames |->
                  CASE g = "wind_Copenhagen" ->
                         [bus |-> "Copenhagen", p_nom |-> args.capacity_wind,
                          marginal_cost |-> args.cost_wind]
                    [] g = "solar_Aarhus" ->
                         [bus |-> "Aarhus", p_nom |-> args.capacity_solar,
                          marginal_cost |-> args.cost_solar]
                    [] OTHER ->
                         [bus |-> "Aalborg", p_nom |-> args.capacity_gas,
                          marginal_cost |-> args.cost_gas]]),
          !.loads = AddComponents(@,
              [b \in Cities |->
                  CASE b = "Copenhagen" -> args.demand_Copenhagen
                    [] b = "Aarhus"     -> args.demand_Aarhus
                    [] OTHER            -> args.demand_Aalborg]),
          !.lines = AddComponents(@, [l \in CityLines |-> [s_nom |-> 100]])]

\* the flows, in ninths of a MW, that the dispatch p puts on the triangle:
\* balance at each bus, and 1.5 f1 + 1.0 f2 + 2.0 f3 = 0 around the cycle
Flows(net, p) ==
    LET inj == [b \in Cities |-> p[GeneratorAt[b]] - net.loads[b]]
        f1  == 4 * inj["Copenhagen"] - 2 * inj["Aarhus"]
    IN [l \in CityLines |->
          CASE l = "Copenhagen_Aarhus" -> f1
            [] l = "Aarhus_Aalborg"    -> f1 + 9 * inj["Aarhus"]
            [] OTHER                   -> f1 - 9 * inj["Copenhagen"]]

\* dispatch levels tried, MW
DispatchGrid(net) == [GeneratorNames -> {0, 50, 100, 150}]

\* the dispatches that satisfy the constraints of the problem
ModelFeasible(net) ==
    {p \in DispatchGrid(net) :
        /\ \A g \in GeneratorNames : p[g] <= net.generators[g].p_nom
        /\ SumSet(p, GeneratorNames) = SumSet(net.loads, Cities)
        /\ \A l \in CityLines :
              /\ Flows(net, p)[l] <= 9 * net.lines[l].s_nom
              /\ -Flows(net, p)[l] <= 9 * net.lines[l].s_nom}

ModelCost(net, p) ==
    SumSet([g \in GeneratorNames |-> net.generators[g].marginal_cost * p[g]], GeneratorNames)

\* the least-cost dispatches
ModelOptimal(net) ==
    {p \in ModelFeasible(net) : \A q \in ModelFeasible(net) : ModelCost(net, p) <= ModelCost(net, q)}

\* network.optimize(solver_name="glpk"): the optimiser is deterministic, of
\* two dispatches of the same cost it returns the one with more from the
\* generator first; None when the problem has no solution
ModelAnswer(net, first) ==
    LET best == ModelOptimal(net)
    IN IF best = {} THEN None
       ELSE Some(CHOOSE p \in best : \A q \in best : p[first] >= q[first])

\* lines 74-81: the solution is assigned to generators_t.p and lines_t.p0
\* only when there is one; a frame never assigned has no columns, and
\* .iloc[0].to_dict() of it is the empty dictionary
run_pypsa_model(args, first, previous) ==
    LET net    == ModelNetwork(args, previous)
        answer == ModelAnswer(net, first)
        solved == IF answer = None THEN net
                  ELSE [net EXCEPT !.p = answer, !.p0 = Some(Flows(net, Val(answer)))]
    IN [network |-> solved,
        results |-> [generators |-> IF solved.p = None THEN <<>> ELSE Val(solved.p),
                     lines      |-> IF solved.p0 = None THEN <<>> ELSE Val(solved.p0),
                     buses      |-> Cities]]

\* the module is imported, nothing has been called
InitModel ==
    \E first \in {"wind_Copenhagen", "solar_Aarhus"} :
        /\ pc = "model_idle"
        /\ exc = None
        /\ nets = <<>>
        /\ globals = [first |-> first, calls |-> <<>>]
        /\ stdout = <<>>
        /\ HarnessIdle({0})

\* a call run_pypsa_model(...) by the user of the module
CallModel ==
    /\ pc = "model_idle"
    /\ Len(globals.calls) < MaxCalls
    /\ \E args \in ModelArgs :
          LET previous == IF nets = <<>> THEN None ELSE Some(nets[1])
              call     == run_pypsa_model(args, globals.first, previous)
          IN /\ nets' = <<call.network>>
             /\ globals' = [globals EXCEPT
                               !.calls = Append(@, [args |-> args, results |-> call.results])]
    /\ UNCHANGED <<pc, exc, stdout, harnessVars>>

NextModel ==
    \/ CallModel

SpecModel == InitModel /\ [][NextModel]_vars

\* what a first call with args returns
FirstCall(args) == run_pypsa_model(args, globals.first, None).results

\* C29: run_pypsa_model keeps no state between calls: two calls with the
\* same nine arguments return the same result, the result of a call is the
\* one a first call with its arguments returns, and every result has
\* exactly the generators wind_Copenhagen, solar_Aarhus and gas_Aalborg, the
\* three lines and the three cities.
C29_CallsIndependentAndComplete ==
    pc = "model_idle" =>
        LET calls == globals.calls
        IN /\ \A i, j \in DOMAIN calls :
                 calls[i].args = calls[j].args => calls[i].results = calls[j].results
           /\ \A i \in DOMAIN calls :
                 /\ calls[i].results = FirstCall(calls[i].args)
                 /\ DOMAIN calls[i].results = {"generators", "lines", "buses"}
                 /\ DOMAIN calls[i].results.generators = GeneratorNames
                 /\ DOMAIN calls[i].results.lines = CityLines
                 /\ calls[i].results.buses = Cities

====
